---------------------------- MODULE Spec2Model ----------------------------
(***************************************************************************)
(* Model of RepositoryInfoClient (src/src/clients/repositoryinfoclient.ts) *)
(*                                                                         *)
(* GetRepositoryInfo is an async method: it runs from one await to the     *)
(* next, and every await is a call to a collaborator whose answer is not   *)
(* under the method's control.  One action models the code between two     *)
(* consecutive awaits; the collaborator's answer is the action's input.    *)
(*                                                                         *)
(* Strings.  A JavaScript string is modelled as the sequence of its "/"    *)
(* characters and of its maximal "/"-free runs, in order:                  *)
(*     "https://tfs/Coll"  is  <<"https:", "/", "/", "tfs", "/", "Coll">>  *)
(* The empty string is << >>.  The only character the code ever tests for  *)
(* is "/" (charAt, lastIndexOf), and every substring it takes starts and   *)
(* ends next to a "/", so positions in the sequence stand for the          *)
(* positions the code computes.  undefined is the value Undefined.         *)
(***************************************************************************)
EXTENDS Naturals, Integers, Sequences, FiniteSets, TLC

VARIABLES
    ctx,             \* this._repoContext: Type, RemoteUrl, TeamProjectName
    startUrl,        \* RemoteUrl of the context when GetRepositoryInfo was called
    pc,              \* the await GetRepositoryInfo is suspended at
    isTeamServices,  \* local isTeamServices (line 49)
    serverUrl,       \* local serverUrl (line 47)
    collectionName,  \* local collectionName (line 48)
    remoteUrl,       \* local remoteUrl, the DefaultCollection candidate (line 80)
    collection,      \* local collection (line 96)
    calls,           \* the collaborator calls issued so far, with their answers
    result,          \* what GetRepositoryInfo returned or threw
    splitIn,         \* argument of the last splitTfvcCollectionUrl call
    splitOut,        \* value of the last splitTfvcCollectionUrl call
    other            \* a second GetRepositoryInfo call, suspended while this one runs

vars == <<ctx, startUrl, pc, isTeamServices, serverUrl, collectionName,
          remoteUrl, collection, calls, result, splitIn, splitOut, other>>

---------------------------------------------------------------------------
(* Bounds *)

\* trailing "/" characters appended to each remote URL of the resolution
MaxTrailing == 1

\* longest argument handed to splitTfvcCollectionUrl on its own
MaxLen == 7

---------------------------------------------------------------------------
(* Strings *)

Slash == "/"

\* JavaScript undefined; no string of the model consists of this one run
Undefined == <<"<undefined>">>

EmptyString == << >>

\* JavaScript truthiness of a string-or-undefined value: if (uri), !collectionUrl
Truthy(s) == s # Undefined /\ s # EmptyString

\* s.substring(from, to), 0-based, to exclusive
Substring(s, from, to) == SubSeq(s, from + 1, to)

\* s.lastIndexOf("/"), 0-based, -1 when there is none
LastIndexOfSlash(s) ==
    LET hits == {i \in 1..Len(s) : s[i] = Slash}
    IN  IF hits = {} THEN -1
        ELSE (CHOOSE i \in hits : \A j \in hits : j <= i) - 1

\* a followed by b; two "/"-free runs that meet become one run
StrCat(a, b) ==
    IF a = EmptyString THEN b
    ELSE IF b = EmptyString THEN a
    ELSE IF a[Len(a)] # Slash /\ b[1] # Slash
         THEN SubSeq(a, 1, Len(a) - 1) \o <<a[Len(a)] \o b[1]>> \o SubSeq(b, 2, Len(b))
         ELSE a \o b

RECURSIVE Slashes(_)
Slashes(k) == IF k = 0 THEN EmptyString ELSE <<Slash>> \o Slashes(k - 1)

---------------------------------------------------------------------------
(* trimTrailingSeparators and splitTfvcCollectionUrl *)

\* the while loop of trimTrailingSeparators: lastIndex after the loop
RECURSIVE TrimLoop(_, _)
TrimLoop(uri, lastIndex) ==
    IF lastIndex > 0 /\ uri[lastIndex] = Slash
    THEN TrimLoop(uri, lastIndex - 1)
    ELSE lastIndex

\* trimTrailingSeparators with an if in place of the while: one "/" is removed
trimTrailingSeparators_OnlyOne(uri) ==
    IF Truthy(uri)
    THEN LET lastIndex == IF uri[Len(uri)] = Slash THEN Len(uri) - 1 ELSE Len(uri)
         IN  IF lastIndex >= 0 THEN Substring(uri, 0, lastIndex) ELSE uri
    ELSE uri

trimTrailingSeparators(uri) ==
    IF Truthy(uri)
    THEN LET lastIndex == TrimLoop(uri, Len(uri))
         IN  IF lastIndex >= 0 THEN Substring(uri, 0, lastIndex) ELSE uri
    ELSE uri

\* the two-element array the method returns; a hole of the array is Undefined
splitTfvcCollectionUrl(collectionUrl) ==
    IF ~Truthy(collectionUrl)
    THEN <<Undefined, Undefined>>
    ELSE LET trimmedUrl == trimTrailingSeparators(collectionUrl)
             index == LastIndexOfSlash(trimmedUrl)
         IN  IF index >= 0
             THEN <<Substring(trimmedUrl, 0, index + 1),
                    Substring(trimmedUrl, index + 1, Len(trimmedUrl))>>
             ELSE <<collectionUrl, EmptyString>>

---------------------------------------------------------------------------
(* url.resolve(from, to) of Node's url module, as used on lines 80 and 117: *)
(* `to` is the empty string or a relative reference without "/" or dots.    *)

Schemes == {"https:", "http:"}

\* number of leading elements of `from` that are its scheme, "//" and host
AuthorityLen(from) ==
    IF Len(from) >= 3 /\ from[1] \in Schemes /\ from[2] = Slash /\ from[3] = Slash
    THEN IF Len(from) >= 4 /\ from[4] # Slash THEN 4 ELSE 3
    ELSE 0

urlResolve(from, to) ==
    LET n      == AuthorityLen(from)
        prefix == SubSeq(from, 1, n)
        path   == SubSeq(from, n + 1, Len(from))
        \* the path of `from` without its last segment
        dir    == Substring(path, 0, LastIndexOfSlash(path) + 1)
    IN  IF to = EmptyString
        THEN prefix \o (IF path = EmptyString /\ n > 0 THEN <<Slash>> ELSE path)
        ELSE prefix \o StrCat(IF dir = EmptyString /\ n > 0 THEN <<Slash>> ELSE dir, to)

---------------------------------------------------------------------------
(* Collaborators whose code is outside this file *)

\* account names of the hosted service that the model's URLs use
Accounts == {"fabrikam"}

HostedSuffix == ".visualstudio.com"

\* RepoUtils.IsTeamFoundationServicesRepo: the URL matches the hosted pattern
IsTeamFoundationServicesRepo(u) ==
    /\ AuthorityLen(u) = 4
    /\ \E a \in Accounts : u[4] = a \o HostedSuffix

\* RepositoryInfo.Account of new RepositoryInfo(url): the account the URL names
Account(u) ==
    IF IsTeamFoundationServicesRepo(u)
    THEN <<CHOOSE a \in Accounts : u[4] = a \o HostedSuffix>>
    ELSE Undefined

\* the template literal of line 57 without its final "/"
TeamServicesUrl_NoFinalSlash(account) ==
    StrCat(StrCat(<<"https:", Slash, Slash>>, account), <<HostedSuffix>>)

\* the template literal `https://${repositoryInfo.Account}.visualstudio.com/`
TeamServicesUrl(account) ==
    StrCat(StrCat(<<"https:", Slash, Slash>>, account), <<HostedSuffix, Slash>>)

\* err.statusCode tested by the catch clause of validateTfvcCollectionUrl
NotFound == 404

\* statusCode of the errors a collaborator rejects with; 0: err has no statusCode
ErrorStatus == {NotFound, 403, 0}

\* answers of TeamServicesApi.validateTfvcCollectionUrl: it resolves or rejects
ValidateAnswers ==
    {[threw |-> FALSE, statusCode |-> 0]}
        \cup {[threw |-> TRUE, statusCode |-> s] : s \in ErrorStatus}

\* names of the collections a server may answer with
CollectionNames == {<<"DefaultCollection">>, <<"fabrikam">>}

NoCollection == [present |-> FALSE, id |-> Undefined, name |-> Undefined, url |-> Undefined]

\* TeamProjectCollection objects a collection fetch may resolve to
Collections ==
    {[present |-> TRUE, id |-> <<"collection-id">>, name |-> n,
      url |-> <<"https:", Slash, Slash, "server", Slash, "_apis", Slash>> \o n]
        : n \in CollectionNames}

NoProject == [present |-> FALSE, id |-> Undefined, name |-> Undefined,
              description |-> Undefined, url |-> Undefined]

\* TeamProject object CoreApiClient.GetTeamProject resolves to for a project name
ProjectOf(teamProjectName) ==
    [present |-> TRUE, id |-> <<"project-id">>, name |-> teamProjectName,
     description |-> <<"description">>, url |-> <<"project-url">>]

\* what CoreApiClient.GetTeamProject may resolve to: the named project or nothing
Projects(teamProjectName) ==
    IF teamProjectName = Undefined THEN {NoProject}
    ELSE {ProjectOf(teamProjectName), NoProject}

---------------------------------------------------------------------------
(* getTfvcRepoInfoBlob and the value GetRepositoryInfo ends with *)

getTfvcRepoInfoBlob(sUrl, collectionId, collName, collectionUrl, projectId, projectName, projectDesc, projectUrl) ==
    [serverUrl  |-> sUrl,
     collection |-> [id |-> collectionId, name |-> collName, url |-> collectionUrl],
     repository |-> [id   |-> <<"00000000-0000-0000-0000-000000000000">>,
                     name |-> <<"NoNameTfvcRepository">>,
                     url  |-> sUrl,
                     project |-> [id |-> projectId, name |-> projectName,
                                  description |-> projectDesc, url |-> projectUrl,
                                  state |-> 1, revision |-> 15],
                     remoteUrl |-> sUrl]]

NoBlob == getTfvcRepoInfoBlob(Undefined, Undefined, Undefined, Undefined,
                              Undefined, Undefined, Undefined, Undefined)

\* the blob TeamServicesApi.getVstsInfo resolves to for a Git remote
VstsInfo(u) ==
    getTfvcRepoInfoBlob(u, <<"collection-id">>, <<"DefaultCollection">>, u,
                        <<"project-id">>, <<"project">>, <<"description">>, u)

\* new RepositoryInfo(blob): the typed value carries the fields of the blob
RepositoryInfo(blob) == blob

Pending         == [kind |-> "pending",   error |-> "", statusCode |-> 0, info |-> NoBlob]
Returned(info)  == [kind |-> "identity",  error |-> "", statusCode |-> 0, info |-> RepositoryInfo(info)]
ReturnedNothing == [kind |-> "undefined", error |-> "", statusCode |-> 0, info |-> NoBlob]
Thrown(e, s)    == [kind |-> "error",     error |-> e,  statusCode |-> s, info |-> NoBlob]

---------------------------------------------------------------------------
(* Inputs of a resolution *)

\* RepositoryType; ANY is a kind GetRepositoryInfo has no branch for
Types == {"GIT", "TFVC", "EXTERNAL", "ANY"}

Centralized == {"TFVC", "EXTERNAL"}

\* remote URLs before trailing separators are appended
BaseUrls ==
    { <<"https:", Slash, Slash, "tfsserver", Slash, "tfs">>,
      <<"https:", Slash, Slash, "tfsserver", Slash, "tfs", Slash, "DefaultCollection">>,
      <<"https:", Slash, Slash, "tfs">>,
      <<"https:", Slash, Slash, "fabrikam.visualstudio.com">>,
      <<"https:", Slash, Slash, "fabrikam.visualstudio.com", Slash, "DefaultCollection">> }

Urls == {u \o Slashes(k) : u \in BaseUrls, k \in 0..MaxTrailing}

\* TeamProjectName set on the context by tf.cmd, or not set
ProjectNames == {<<"project">>, Undefined}

---------------------------------------------------------------------------
(* The record of collaborator calls *)

\* a call that has been issued and not yet answered
Call(op, proto, site, u, arg) ==
    [op |-> op, proto |-> proto, site |-> site, url |-> u, arg |-> arg,
     ret |-> "pending", rejected |-> FALSE, statusCode |-> 0]

\* the pending call, the last one of cs, is answered: the collaborator resolved,
\* or rejected with an error of that statusCode, and the awaiting code saw ret
Answer(cs, ret, rejected, status) ==
    [cs EXCEPT ![Len(cs)].ret = ret, ![Len(cs)].rejected = rejected,
               ![Len(cs)].statusCode = status]

---------------------------------------------------------------------------
(* Decisions of the code *)

\* validateTfvcCollectionUrl with a catch clause that returns false for every error
validateTfvcCollectionUrl_AnyErrorIsFalse(answer) ==
    IF ~answer.threw THEN "true" ELSE "false"

\* validateTfvcCollectionUrl: what the method does with the client's answer
validateTfvcCollectionUrl(answer) ==
    IF ~answer.threw THEN "true"
    ELSE IF answer.statusCode = NotFound THEN "false"
    ELSE "throw"

\* line 59 without the check of valid
TeamServicesInvalid_Unchecked(valid) == FALSE

\* line 59, if (!valid): the hosted hypothesis failed
TeamServicesInvalid(valid) == valid = "false"

\* lines 72 and 77 with the DefaultCollection candidate tried in every case
LiteralInvalid_Always(valid) == TRUE

\* lines 72 and 77 with the result of the validation ignored: the URL is split
LiteralInvalid_Never(valid) == FALSE

\* lines 72 and 77, the else of if (valid): go on to the DefaultCollection candidate
LiteralInvalid(valid) == valid = "false"

\* line 82 without the check of valid
DefaultCollectionInvalid_Unchecked(valid) == FALSE

\* line 82, if (!valid): the DefaultCollection candidate failed too
DefaultCollectionInvalid(valid) == valid = "false"

\* lines 87-90 without the test of the context's Type
UpdateRemoteUrl_AnyType(c, u) == [c EXCEPT !.RemoteUrl = u]

\* lines 87-90: the context's RemoteUrl is written for a TfvcContext only
UpdateRemoteUrl(c, u) ==
    IF c.Type = "TFVC" THEN [c EXCEPT !.RemoteUrl = u] ELSE c

\* lines 98-106 with the REST client on both branches
CollectionProtocol_AlwaysRest(isTS) == "REST"

\* lines 98-106: CoreApiClient (REST) or TfsCatalogSoapClient (SOAP)
CollectionProtocol(isTS) == IF isTS THEN "REST" ELSE "SOAP"

\* lines 95-106 with the client chosen from the collection name that validated
GetProjectCollectionCall_ByCollectionName(sUrl, cName, isTS) ==
    Call("GetProjectCollection",
         IF cName = <<"DefaultCollection">> THEN "REST" ELSE "SOAP",
         "collection", sUrl, cName)

\* lines 95-106: the collection fetch that follows a successful validation
GetProjectCollectionCall(sUrl, cName, isTS) ==
    Call("GetProjectCollection", CollectionProtocol(isTS), "collection", sUrl, cName)

\* line 107 without the check of collection
CollectionMissing_Unchecked(isTS, coll) == FALSE

\* line 107, if (!collection), which only the SOAP branch has
CollectionMissing(isTS, coll) == ~isTS /\ ~coll.present

---------------------------------------------------------------------------
(* GetRepositoryInfo *)

\* there is no second call
NoCall == [pc |-> "none"]

Init ==
    /\ ctx \in [Type : Types, RemoteUrl : Urls, TeamProjectName : ProjectNames]
    /\ startUrl = ctx.RemoteUrl
    /\ pc = "start"
    /\ isTeamServices = FALSE
    /\ serverUrl = Undefined
    /\ collectionName = Undefined
    /\ remoteUrl = Undefined
    /\ collection = NoCollection
    /\ calls = << >>
    /\ result = Pending
    /\ splitIn = Undefined
    /\ splitOut = <<Undefined, Undefined>>
    /\ other = NoCall

locals == <<isTeamServices, serverUrl, collectionName, remoteUrl, collection>>
split  == <<splitIn, splitOut>>

Finish(r) == pc' = "done" /\ result' = r

\* lines 34-37: a Git repository, up to await getVstsInfo()
StartGit ==
    /\ pc = "start"
    /\ ctx.Type = "GIT"
    /\ calls' = <<Call("getVstsInfo", "REST", "git", ctx.RemoteUrl, Undefined)>>
    /\ pc' = "getVstsInfo"
    /\ UNCHANGED <<ctx, startUrl, other, locals, result, split>>

\* lines 37-40 with the rejection of getVstsInfo() caught and nothing returned
GetVstsInfoReturns_ErrorSwallowed ==
    /\ pc = "getVstsInfo"
    /\ \E s \in {-1} \cup ErrorStatus :
          IF s = -1
          THEN /\ calls' = Answer(calls, "value", FALSE, 0)
               /\ Finish(Returned(VstsInfo(ctx.RemoteUrl)))
          ELSE /\ calls' = Answer(calls, "throw", TRUE, s)
               /\ Finish(ReturnedNothing)
    /\ UNCHANGED <<ctx, startUrl, other, locals, split>>

\* lines 37-40: getVstsInfo() resolves or rejects
GetVstsInfoReturns ==
    /\ pc = "getVstsInfo"
    /\ \E s \in {-1} \cup ErrorStatus :
          IF s = -1
          THEN /\ calls' = Answer(calls, "value", FALSE, 0)
               /\ Finish(Returned(VstsInfo(ctx.RemoteUrl)))
          ELSE /\ calls' = Answer(calls, "throw", TRUE, s)
               /\ Finish(Thrown("Rejected", s))
    /\ UNCHANGED <<ctx, startUrl, other, locals, split>>

\* lines 41-58 and 66-71: a TFVC or EXTERNAL repository, up to the first validation
StartTfvc ==
    /\ pc = "start"
    /\ ctx.Type \in Centralized
    /\ isTeamServices' = IsTeamFoundationServicesRepo(ctx.RemoteUrl)
    /\ IF isTeamServices'
       THEN /\ collectionName' = Account(ctx.RemoteUrl)
            /\ serverUrl' = TeamServicesUrl(Account(ctx.RemoteUrl))
            /\ calls' = <<Call("validateTfvcCollectionUrl", "REST", "teamServices",
                               serverUrl', Undefined)>>
            /\ pc' = "validateTeamServices"
       ELSE /\ collectionName' = Undefined
            /\ serverUrl' = ctx.RemoteUrl
            /\ calls' = <<Call("validateTfvcCollectionUrl", "REST", "literal",
                               serverUrl', Undefined)>>
            /\ pc' = "validateLiteral"
    /\ UNCHANGED <<ctx, startUrl, other, remoteUrl, collection, result, split>>

\* lines 41 and 132: neither branch applies, the unassigned repositoryInfo is returned
StartOther ==
    /\ pc = "start"
    /\ ctx.Type \notin {"GIT"} \cup Centralized
    /\ Finish(ReturnedNothing)
    /\ UNCHANGED <<ctx, startUrl, other, locals, calls, split>>

\* lines 58-64 and 95-101: the validation of the hosted URL is answered
ValidateTeamServicesReturns ==
    /\ pc = "validateTeamServices"
    /\ \E a \in ValidateAnswers :
          LET valid == validateTfvcCollectionUrl(a)
              cs    == Answer(calls, valid, a.threw, a.statusCode)
          IN  IF valid = "throw"
              THEN calls' = cs /\ Finish(Thrown("Rejected", a.statusCode))
              ELSE IF TeamServicesInvalid(valid)
              THEN calls' = cs /\ Finish(Thrown("UnableToValidateTeamServicesTfvcRepository", 0))
              ELSE /\ calls' = Append(cs, GetProjectCollectionCall(serverUrl, collectionName,
                                                                   isTeamServices))
                   /\ pc' = "getProjectCollection"
                   /\ UNCHANGED result
    /\ UNCHANGED <<ctx, startUrl, other, locals, split>>

\* lines 71-81 and 95-106: the validation of the remote URL as given is answered
ValidateLiteralReturns ==
    /\ pc = "validateLiteral"
    /\ \E a \in ValidateAnswers :
          LET valid == validateTfvcCollectionUrl(a)
              cs    == Answer(calls, valid, a.threw, a.statusCode)
              parts == splitTfvcCollectionUrl(serverUrl)
          IN  IF valid = "throw"
              THEN /\ calls' = cs
                   /\ Finish(Thrown("Rejected", a.statusCode))
                   /\ UNCHANGED <<serverUrl, collectionName, remoteUrl, split>>
              ELSE IF LiteralInvalid(valid)
              THEN /\ collectionName' = <<"DefaultCollection">>
                   /\ remoteUrl' = urlResolve(serverUrl, collectionName')
                   /\ calls' = Append(cs, Call("validateTfvcCollectionUrl", "REST",
                                               "defaultCollection", remoteUrl', Undefined))
                   /\ pc' = "validateDefaultCollection"
                   /\ UNCHANGED <<serverUrl, result, split>>
              ELSE /\ splitIn' = serverUrl
                   /\ splitOut' = parts
                   /\ serverUrl' = parts[1]
                   /\ collectionName' = parts[2]
                   /\ calls' = Append(cs, GetProjectCollectionCall(serverUrl', collectionName',
                                                                   isTeamServices))
                   /\ pc' = "getProjectCollection"
                   /\ UNCHANGED <<remoteUrl, result>>
    /\ UNCHANGED <<ctx, startUrl, other, isTeamServices, collection>>

\* lines 81-92 with the write of lines 87-90 placed before the check of line 82
ValidateDefaultCollectionReturns_WriteFirst ==
    /\ pc = "validateDefaultCollection"
    /\ \E a \in ValidateAnswers :
          LET valid == validateTfvcCollectionUrl(a)
              cs    == Answer(calls, valid, a.threw, a.statusCode)
          IN  /\ ctx' = UpdateRemoteUrl(ctx, remoteUrl)
              /\ IF valid = "throw"
                 THEN calls' = cs /\ Finish(Thrown("Rejected", a.statusCode))
                 ELSE IF DefaultCollectionInvalid(valid)
                 THEN /\ calls' = cs
                      /\ Finish(Thrown("UnableToValidateTfvcRepositoryWithDefaultCollection", 0))
                 ELSE /\ calls' = Append(cs, GetProjectCollectionCall(serverUrl, collectionName,
                                                                      isTeamServices))
                      /\ pc' = "getProjectCollection"
                      /\ UNCHANGED result
    /\ UNCHANGED <<startUrl, other, locals, split>>

\* lines 81-92 and 95-106: the validation of the DefaultCollection candidate is answered
ValidateDefaultCollectionReturns ==
    /\ pc = "validateDefaultCollection"
    /\ \E a \in ValidateAnswers :
          LET valid == validateTfvcCollectionUrl(a)
              cs    == Answer(calls, valid, a.threw, a.statusCode)
          IN  IF valid = "throw"
              THEN calls' = cs /\ Finish(Thrown("Rejected", a.statusCode)) /\ UNCHANGED ctx
              ELSE IF DefaultCollectionInvalid(valid)
              THEN /\ calls' = cs
                   /\ Finish(Thrown("UnableToValidateTfvcRepositoryWithDefaultCollection", 0))
                   /\ UNCHANGED ctx
              ELSE /\ ctx' = UpdateRemoteUrl(ctx, remoteUrl)
                   /\ calls' = Append(cs, GetProjectCollectionCall(serverUrl, collectionName,
                                                                   isTeamServices))
                   /\ pc' = "getProjectCollection"
                   /\ UNCHANGED result
    /\ UNCHANGED <<startUrl, other, locals, split>>

\* lines 101-121: the collection fetch is answered with a collection, nothing or an error
GetProjectCollectionReturns ==
    /\ pc = "getProjectCollection"
    /\ \/ \E s \in ErrorStatus :
             /\ calls' = Answer(calls, "throw", TRUE, s)
             /\ Finish(Thrown("Rejected", s))
             /\ UNCHANGED collection
       \/ \E coll \in Collections \cup {NoCollection} :
             LET cs == Answer(calls, IF coll.present THEN "value" ELSE "absent", FALSE, 0)
             IN  /\ collection' = coll
                 /\ IF CollectionMissing(isTeamServices, coll)
                    THEN calls' = cs /\ Finish(Thrown("CollectionNotFound", 0))
                    ELSE IF ~coll.present
                    \* line 113 reads collection.name of undefined
                    THEN calls' = cs /\ Finish(Thrown("TypeError", 0))
                    ELSE /\ calls' = Append(cs,
                                Call("GetTeamProject", "REST", "project",
                                     urlResolve(serverUrl,
                                                IF isTeamServices THEN EmptyString ELSE coll.name),
                                     ctx.TeamProjectName))
                         /\ pc' = "getTeamProject"
                         /\ UNCHANGED result
    /\ UNCHANGED <<ctx, startUrl, other, isTeamServices, serverUrl, collectionName, remoteUrl, split>>

\* lines 121-130: the project fetch is answered with a project, nothing or an error
GetTeamProjectReturns ==
    /\ pc = "getTeamProject"
    /\ \/ \E s \in ErrorStatus :
             /\ calls' = Answer(calls, "throw", TRUE, s)
             /\ Finish(Thrown("Rejected", s))
       \/ \E project \in Projects(ctx.TeamProjectName) :
             /\ calls' = Answer(calls, IF project.present THEN "value" ELSE "absent", FALSE, 0)
             /\ IF ~project.present
                \* line 122 reads project.id of undefined
                THEN Finish(Thrown("TypeError", 0))
                ELSE Finish(Returned(getTfvcRepoInfoBlob(serverUrl, collection.id,
                                collection.name, collection.url, project.id, project.name,
                                project.description, project.url)))
    /\ UNCHANGED <<ctx, startUrl, other, locals, split>>

Next ==
    \/ StartGit
    \/ GetVstsInfoReturns
    \/ StartTfvc
    \/ StartOther
    \/ ValidateTeamServicesReturns
    \/ ValidateLiteralReturns
    \/ ValidateDefaultCollectionReturns
    \/ GetProjectCollectionReturns
    \/ GetTeamProjectReturns

Spec == Init /\ [][Next]_vars

---------------------------------------------------------------------------
(* splitTfvcCollectionUrl called on its own *)

SplitAlphabet == {Slash, "https:", "tfs", "Coll"}

\* a sequence is a string of the model when no two "/"-free runs are adjacent
IsString(s) == \A i \in 1..(Len(s) - 1) : s[i] = Slash \/ s[i + 1] = Slash

SplitInputs ==
    {s \in UNION {[1..n -> SplitAlphabet] : n \in 0..MaxLen} : IsString(s)}

SplitInit ==
    /\ ctx = [Type |-> "TFVC", RemoteUrl |-> EmptyString, TeamProjectName |-> Undefined]
    /\ startUrl = EmptyString
    /\ pc = "split"
    /\ isTeamServices = FALSE
    /\ serverUrl = Undefined
    /\ collectionName = Undefined
    /\ remoteUrl = Undefined
    /\ collection = NoCollection
    /\ calls = << >>
    /\ result = Pending
    /\ splitIn = Undefined
    /\ splitOut = <<Undefined, Undefined>>
    /\ other = NoCall

\* lines 73-75: a string is decomposed into serverUrl and collectionName
SplitCall ==
    /\ pc = "split"
    /\ \E u \in SplitInputs :
          /\ splitIn' = u
          /\ splitOut' = splitTfvcCollectionUrl(u)
          /\ serverUrl' = splitOut'[1]
          /\ collectionName' = splitOut'[2]
    /\ pc' = "splitDone"
    /\ UNCHANGED <<ctx, startUrl, other, isTeamServices, remoteUrl, collection, calls, result>>

SplitNext == SplitCall

SplitSpec == SplitInit /\ [][SplitNext]_vars

---------------------------------------------------------------------------
(* Vocabulary of the properties *)

\* positions in calls of the calls issued at one place of the code
At(site) == {i \in DOMAIN calls : calls[i].site = site}

Validations == {i \in DOMAIN calls : calls[i].op = "validateTfvcCollectionUrl"}

\* the resolution is of the centralized family and its URL is not a hosted one
NonHosted == ctx.Type \in Centralized /\ ~IsTeamFoundationServicesRepo(startUrl)

\* the resolution is of the centralized family and its URL is a hosted one
Hosted == ctx.Type \in Centralized /\ IsTeamFoundationServicesRepo(startUrl)

LiteralReturned(r) == \E i \in At("literal") : calls[i].ret = r

DefaultCollectionReturned(r) == \E i \in At("defaultCollection") : calls[i].ret = r

---------------------------------------------------------------------------
(* Properties *)

\* C1: in a non-hosted TFVC or EXTERNAL resolution, once the validation of
\* the remote URL as given has returned true, no validation of the
\* DefaultCollection candidate is issued, whatever the collaborators answer.
C1_NoDefaultCollectionAfterLiteral ==
    (NonHosted /\ LiteralReturned("true")) => At("defaultCollection") = {}

C1_Witness ==
    /\ NonHosted
    /\ LiteralReturned("true")
    /\ pc = "done"
    /\ result.kind = "identity"

\* C2 as stated: for TFVC and equally for EXTERNAL, when the literal validation
\* returned false and the DefaultCollection validation returned true, the
\* context's RemoteUrl is the validated DefaultCollection URL.
C2_RemoteUrlUpdatedForBothKinds ==
    \A i \in At("defaultCollection") :
        (ctx.Type \in Centralized /\ LiteralReturned("false") /\ calls[i].ret = "true")
            => ctx.RemoteUrl = calls[i].url

\* C2 amended: in that case the context's RemoteUrl is the validated
\* DefaultCollection URL when the context is of kind TFVC, and is the URL the
\* resolution started with when the context is of kind EXTERNAL.
C2_RemoteUrlUpdatedForTfvcOnly ==
    \A i \in At("defaultCollection") :
        (ctx.Type \in Centralized /\ LiteralReturned("false") /\ calls[i].ret = "true")
            => IF ctx.Type = "TFVC"
               THEN ctx.RemoteUrl = calls[i].url
               ELSE ctx.RemoteUrl = startUrl

C2_Witness ==
    /\ ctx.Type = "TFVC"
    /\ LiteralReturned("false")
    /\ DefaultCollectionReturned("true")
    /\ ctx.RemoteUrl # startUrl
    /\ ctx.RemoteUrl = remoteUrl

\* u followed by the path segment seg, the segments of u kept
AppendSegment(u, seg) ==
    IF u # EmptyString /\ u[Len(u)] = Slash THEN u \o seg ELSE u \o <<Slash>> \o seg

\* C3: when the literal validation of a non-hosted URL returned false, the URL
\* of the second validation is the remote URL with the segment
\* DefaultCollection appended (https://tfsserver/tfs/DefaultCollection for
\* https://tfsserver/tfs), and when that validation returns true the
\* collection name is DefaultCollection.
C3_CandidateAppendsDefaultCollection ==
    \A i \in At("defaultCollection") :
        /\ calls[i].url = AppendSegment(startUrl, <<"DefaultCollection">>)
        /\ calls[i].ret = "true" => collectionName = <<"DefaultCollection">>

\* C4: a validation returns false exactly when the client rejected with
\* statusCode 404 and true when the client resolved; any other rejection is
\* rethrown as it is and ends the resolution at once, so that no
\* DefaultCollection validation and no fetch follows it.
C4_ValidationResult ==
    \A i \in Validations :
        calls[i].ret # "pending" =>
            /\ calls[i].ret = "false" <=> (calls[i].rejected /\ calls[i].statusCode = NotFound)
            /\ ~calls[i].rejected => calls[i].ret = "true"
            /\ (calls[i].rejected /\ calls[i].statusCode # NotFound) =>
                  /\ calls[i].ret = "throw"
                  /\ i = Len(calls)
                  /\ pc = "done"
                  /\ result = Thrown("Rejected", calls[i].statusCode)

C4_Witness ==
    /\ \E i \in At("literal") : calls[i].rejected /\ calls[i].statusCode = 403
    /\ pc = "done"
    /\ result.kind = "error"
    /\ At("defaultCollection") = {}

\* C5 as stated: every collaborator call of a resolution goes through one and
\* the same protocol, and in a non-hosted TFVC or EXTERNAL resolution the
\* collection fetch and the project fetch both use the legacy protocol.
C5_OneProtocolForEveryCall ==
    /\ \A i, j \in DOMAIN calls : calls[i].proto = calls[j].proto
    /\ NonHosted =>
          \A i \in At("collection") \cup At("project") : calls[i].proto = "SOAP"

\* C5 amended: the collection fetch goes through exactly one protocol, REST
\* when the remote URL matches the hosted pattern and the legacy protocol
\* otherwise; every validation call and the project fetch go through REST, so
\* a hosted resolution uses REST for every call and a non-hosted one uses the
\* legacy protocol for the collection fetch only.
C5_LegacyProtocolForCollectionFetchOnly ==
    /\ \A i \in At("collection") :
          calls[i].proto = IF IsTeamFoundationServicesRepo(startUrl) THEN "REST" ELSE "SOAP"
    /\ \A i \in DOMAIN calls \ At("collection") : calls[i].proto = "REST"
    /\ Hosted => \A i, j \in DOMAIN calls : calls[i].proto = calls[j].proto

C5_Witness ==
    /\ NonHosted
    /\ \E i \in At("collection") : calls[i].proto = "SOAP"
    /\ \E i \in At("project") : calls[i].proto = "REST"

\* every field of an identity has a value
FullyPopulated(info) ==
    /\ info.serverUrl # Undefined
    /\ \A f \in {"id", "name", "url"} : info.collection[f] # Undefined
    /\ \A f \in {"id", "name", "url", "remoteUrl"} : info.repository[f] # Undefined
    /\ \A f \in {"id", "name", "description", "url"} : info.repository.project[f] # Undefined

\* C6: whatever the Type of the context and whatever the collaborators answer,
\* a finished GetRepositoryInfo has returned a fully populated identity or has
\* thrown an error; it has not returned nothing or a partly filled identity.
C6_IdentityOrError ==
    pc = "done" =>
        \/ result.kind = "error"
        \/ result.kind = "identity" /\ FullyPopulated(result.info)

SplitDone == splitIn # Undefined

\* C9: after the address has been resolved, and for every string handed to
\* splitTfvcCollectionUrl, the empty string included, the collection name is a
\* string: it is never undefined.
C9_CollectionNameIsString ==
    /\ SplitDone => splitOut[2] # Undefined
    /\ pc \in {"getProjectCollection", "getTeamProject", "splitDone"}
          => collectionName # Undefined

\* C10: https://tfs/ decomposes into the server URL https://tfs/ and the
\* collection name "", and a string without any "/" decomposes into itself as
\* server URL and the collection name "".
C10_NoCollectionSegment ==
    /\ splitIn = <<"https:", Slash, Slash, "tfs", Slash>>
          => splitOut = <<splitIn, EmptyString>>
    /\ (SplitDone /\ \A i \in DOMAIN splitIn : splitIn[i] # Slash)
          => splitOut = <<splitIn, EmptyString>>

\* the string has a "/" that is not one of its trailing separators
HasInnerSlash(u) == \E i \in 1..TrimLoop(u, Len(u)) : u[i] = Slash

\* C11: for a non-empty string whose trimmed form contains a "/", appending
\* any number of "/" does not change the decomposition; the server URL ends
\* with "/" and the collection name contains no "/" (https://tfs/Coll/ and
\* https://tfs/Coll both give https://tfs/ and Coll).
C11_TrailingSeparatorsIgnored ==
    (SplitDone /\ splitIn # EmptyString /\ HasInnerSlash(splitIn)) =>
        /\ \A k \in 0..(MaxTrailing + 1) :
              splitTfvcCollectionUrl(splitIn \o Slashes(k)) = splitOut
        /\ splitOut[1][Len(splitOut[1])] = Slash
        /\ \A i \in DOMAIN splitOut[2] : splitOut[2][i] # Slash
        /\ splitIn \in { <<"https:", Slash, Slash, "tfs", Slash, "Coll">>,
                         <<"https:", Slash, Slash, "tfs", Slash, "Coll", Slash>> }
              => splitOut = << <<"https:", Slash, Slash, "tfs", Slash>>, <<"Coll">> >>

C11_Witness ==
    /\ pc = "splitDone"
    /\ splitIn = <<"https:", Slash, Slash, "tfs", Slash, "Coll", Slash>>
    /\ splitOut = << <<"https:", Slash, Slash, "tfs", Slash>>, <<"Coll">> >>

\* C12: in a TFVC or EXTERNAL resolution of a hosted URL whose validation
\* returned true, the collection name handed to the collection fetch is the
\* account name of the URL, the server URL is
\* https://{account}.visualstudio.com/, and that is the serverUrl of the
\* identity returned.
C12_HostedCollectionIsAccount ==
    (Hosted /\ \E i \in At("teamServices") : calls[i].ret = "true") =>
        \E a \in Accounts :
            /\ startUrl[4] = a \o HostedSuffix
            /\ At("collection") # {}
            /\ \A i \in At("collection") :
                  /\ calls[i].arg = <<a>>
                  /\ calls[i].url = <<"https:", Slash, Slash, a \o HostedSuffix, Slash>>
            /\ serverUrl = <<"https:", Slash, Slash, a \o HostedSuffix, Slash>>
            /\ result.kind = "identity" => result.info.serverUrl = serverUrl

C12_Witness ==
    /\ Hosted
    /\ \E i \in At("teamServices") : calls[i].ret = "true"
    /\ result.kind = "identity"
    /\ result.info.serverUrl = <<"https:", Slash, Slash, "fabrikam.visualstudio.com", Slash>>

\* C13: when the collection fetch of the legacy protocol resolves to no
\* collection, the resolution throws its own error, no project fetch is
\* issued and no identity is returned.
C13_MissingCollectionIsError ==
    \A i \in At("collection") :
        (calls[i].proto = "SOAP" /\ calls[i].ret = "absent") =>
            /\ pc = "done"
            /\ result = Thrown("CollectionNotFound", 0)
            /\ At("project") = {}
            /\ i = Len(calls)

C13_Witness ==
    /\ \E i \in At("collection") : calls[i].proto = "SOAP" /\ calls[i].ret = "absent"
    /\ result.kind = "error"
    /\ result.error = "CollectionNotFound"

\* C14: when the project fetch resolves to no project, the resolution does
\* not fail at that point: it does not end with an error before the identity
\* is assembled.
C14_MissingProjectIsNotFatal ==
    \A i \in At("project") : calls[i].ret = "absent" => result.kind # "error"

\* C15: in a TFVC or EXTERNAL resolution the collaborator calls follow one
\* another without overlap: the collection fetch comes after a validation
\* that returned true, the project fetch after a collection fetch that
\* returned a collection, an identity after a project fetch that returned;
\* there is at most one collection fetch, one project fetch and two
\* validation calls.
C15_CallsGatedInOrder ==
    ctx.Type \in Centralized =>
        /\ \A i \in DOMAIN calls : i < Len(calls) => calls[i].ret # "pending"
        /\ \A i \in At("collection") :
              \E j \in Validations : j < i /\ calls[j].ret = "true"
        /\ \A i \in At("project") :
              \E j \in At("collection") : j < i /\ calls[j].ret = "value"
        /\ result.kind = "identity" => \E j \in At("project") : calls[j].ret = "value"
        /\ Cardinality(At("collection")) <= 1
        /\ Cardinality(At("project")) <= 1
        /\ Cardinality(Validations) <= 2
        /\ Cardinality(Validations) + Cardinality(At("collection"))
              + Cardinality(At("project")) = Len(calls)

C15_Witness ==
    /\ ctx.Type \in Centralized
    /\ Cardinality(Validations) = 2
    /\ Cardinality(At("collection")) = 1
    /\ Cardinality(At("project")) = 1
    /\ result.kind = "identity"

\* C17: the context's RemoteUrl differs from the value it had at the start
\* only in a non-hosted resolution whose literal validation returned false
\* and whose DefaultCollection validation returned true; no step changes the
\* Type or the TeamProjectName of the context.
C17_RemoteUrlWrittenOnDefaultPathOnly ==
    /\ [](ctx.RemoteUrl # startUrl =>
            (NonHosted /\ LiteralReturned("false") /\ DefaultCollectionReturned("true")))
    /\ [][/\ ctx'.Type = ctx.Type
          /\ ctx'.TeamProjectName = ctx.TeamProjectName
          /\ (ctx'.RemoteUrl # ctx.RemoteUrl => pc = "validateDefaultCollection")]_vars

C17_Witness ==
    /\ ctx.RemoteUrl # startUrl
    /\ pc = "done"
    /\ result.kind = "identity"

\* C18 as stated: whenever GetRepositoryInfo has ended with an error, the
\* context's RemoteUrl is the value it had when the resolution started.
C18_ErrorLeavesRemoteUrl ==
    result.kind = "error" => ctx.RemoteUrl = startUrl

\* C18 amended: when GetRepositoryInfo has ended with an error, the context's
\* RemoteUrl is the value it had at the start, except when the error comes
\* after the DefaultCollection validation returned true for a context of kind
\* TFVC: then it is the validated DefaultCollection URL.
C18_ErrorKeepsRemoteUrlUnlessDefaultValidated ==
    result.kind = "error" =>
        IF ctx.Type = "TFVC" /\ DefaultCollectionReturned("true")
        THEN \A i \in At("defaultCollection") : ctx.RemoteUrl = calls[i].url
        ELSE ctx.RemoteUrl = startUrl

C18_Witness ==
    /\ result.kind = "error"
    /\ DefaultCollectionReturned("true")
    /\ ctx.RemoteUrl # startUrl

\* C19: a GIT resolution issues one REST getVstsInfo call on the remote URL
\* and no other call; it returns the identity built from the answer when
\* the call resolves and throws the call's error when it rejects.
C19_GitHasNoFallback ==
    ctx.Type = "GIT" =>
        /\ pc # "start" =>
              /\ Len(calls) = 1
              /\ calls[1].op = "getVstsInfo"
              /\ calls[1].proto = "REST"
              /\ calls[1].url = startUrl
        /\ Validations = {} /\ At("collection") = {} /\ At("project") = {}
        /\ pc = "done" =>
              /\ ~calls[1].rejected => result = Returned(VstsInfo(startUrl))
              /\ calls[1].rejected => result = Thrown("Rejected", calls[1].statusCode)
        /\ ctx.RemoteUrl = startUrl

C19_Witness ==
    /\ ctx.Type = "GIT"
    /\ pc = "done"
    /\ calls[1].rejected
    /\ result.kind = "error"

---------------------------------------------------------------------------
(* Two GetRepositoryInfo calls of two clients, each constructed with its own *)
(* context (lines 24-27), interleaved at their awaits.  The variables other  *)
(* than `other` are the call that runs; `other` is the suspended call.       *)

PairUrls ==
    { <<"https:", Slash, Slash, "tfsserver", Slash, "tfs">>,
      <<"https:", Slash, Slash, "tfs">>,
      <<"https:", Slash, Slash, "fabrikam.visualstudio.com">> }

PairContexts == [Type : Types, RemoteUrl : PairUrls, TeamProjectName : {<<"project">>}]

\* a call of GetRepositoryInfo that has not executed a statement yet
Entered(c) ==
    [ctx |-> c, startUrl |-> c.RemoteUrl, pc |-> "start", isTeamServices |-> FALSE,
     serverUrl |-> Undefined, collectionName |-> Undefined, remoteUrl |-> Undefined,
     collection |-> NoCollection, calls |-> << >>, result |-> Pending,
     splitIn |-> Undefined, splitOut |-> <<Undefined, Undefined>>]

\* the call that runs, as it is kept while it is suspended
Running ==
    [ctx |-> ctx, startUrl |-> startUrl, pc |-> pc, isTeamServices |-> isTeamServices,
     serverUrl |-> serverUrl, collectionName |-> collectionName, remoteUrl |-> remoteUrl,
     collection |-> collection, calls |-> calls, result |-> result,
     splitIn |-> splitIn, splitOut |-> splitOut]

\* this._repoContext with the field declared static: one context for every client
OwnContext_Static(suspended, running) == running.ctx

\* lines 22-26: this._repoContext of the call that is resumed is its client's own
OwnContext(suspended, running) == suspended.ctx

PairInit ==
    /\ ctx \in PairContexts
    /\ startUrl = ctx.RemoteUrl
    /\ pc = "start"
    /\ isTeamServices = FALSE
    /\ serverUrl = Undefined
    /\ collectionName = Undefined
    /\ remoteUrl = Undefined
    /\ collection = NoCollection
    /\ calls = << >>
    /\ result = Pending
    /\ splitIn = Undefined
    /\ splitOut = <<Undefined, Undefined>>
    /\ other \in {Entered(c) : c \in PairContexts}

\* the running call is suspended at its await (or has ended) and the other call goes on
Switch ==
    /\ other # NoCall
    /\ other' = Running
    /\ ctx' = OwnContext(other, Running)
    /\ startUrl' = other.startUrl
    /\ pc' = other.pc
    /\ isTeamServices' = other.isTeamServices
    /\ serverUrl' = other.serverUrl
    /\ collectionName' = other.collectionName
    /\ remoteUrl' = other.remoteUrl
    /\ collection' = other.collection
    /\ calls' = other.calls
    /\ result' = other.result
    /\ splitIn' = other.splitIn
    /\ splitOut' = other.splitOut

PairNext ==
    \/ StartGit
    \/ GetVstsInfoReturns
    \/ StartTfvc
    \/ StartOther
    \/ ValidateTeamServicesReturns
    \/ ValidateLiteralReturns
    \/ ValidateDefaultCollectionReturns
    \/ GetProjectCollectionReturns
    \/ GetTeamProjectReturns
    \/ Switch

PairSpec == PairInit /\ [][PairNext]_vars

---------------------------------------------------------------------------
(* GetRepositoryInfo run from its first to its last statement *)

\* what a call ends with: its result and the RemoteUrl it leaves in its context
Outcome(r, u) == [result |-> r, RemoteUrl |-> u]

\* lines 95-130, for the answers cs[i] of the collection fetch (its value is
\* coll) and cs[i + 1] of the project fetch
FetchesAlone(c, cs, i, coll, isTS, sUrl, u) ==
    IF cs[i].rejected THEN Outcome(Thrown("Rejected", cs[i].statusCode), u)
    ELSE IF CollectionMissing(isTS, coll) THEN Outcome(Thrown("CollectionNotFound", 0), u)
    ELSE IF ~coll.present THEN Outcome(Thrown("TypeError", 0), u)
    ELSE IF cs[i + 1].rejected THEN Outcome(Thrown("Rejected", cs[i + 1].statusCode), u)
    ELSE IF cs[i + 1].ret = "absent" THEN Outcome(Thrown("TypeError", 0), u)
    ELSE LET project == ProjectOf(c.TeamProjectName)
         IN  Outcome(Returned(getTfvcRepoInfoBlob(sUrl, coll.id, coll.name, coll.url,
                         project.id, project.name, project.description, project.url)), u)

\* lines 29-133 for a call that is the only one: c is the context it is called
\* with, cs[i] holds the answer its i-th await gets and coll the value its
\* collection fetch resolves to
RunAlone(c, cs, coll) ==
    LET answer(i) == [threw |-> cs[i].rejected, statusCode |-> cs[i].statusCode]
        valid(i)  == validateTfvcCollectionUrl(answer(i))
        u         == c.RemoteUrl
    IN  IF c.Type = "GIT"
        THEN IF cs[1].rejected
             THEN Outcome(Thrown("Rejected", cs[1].statusCode), u)
             ELSE Outcome(Returned(VstsInfo(u)), u)
        ELSE IF c.Type \notin Centralized
        THEN Outcome(ReturnedNothing, u)
        ELSE IF valid(1) = "throw"
        THEN Outcome(Thrown("Rejected", cs[1].statusCode), u)
        ELSE IF IsTeamFoundationServicesRepo(u)
        THEN IF TeamServicesInvalid(valid(1))
             THEN Outcome(Thrown("UnableToValidateTeamServicesTfvcRepository", 0), u)
             ELSE FetchesAlone(c, cs, 2, coll, TRUE, TeamServicesUrl(Account(u)), u)
        ELSE IF ~LiteralInvalid(valid(1))
        THEN FetchesAlone(c, cs, 2, coll, FALSE, splitTfvcCollectionUrl(u)[1], u)
        ELSE IF valid(2) = "throw"
        THEN Outcome(Thrown("Rejected", cs[2].statusCode), u)
        ELSE IF DefaultCollectionInvalid(valid(2))
        THEN Outcome(Thrown("UnableToValidateTfvcRepositoryWithDefaultCollection", 0), u)
        ELSE FetchesAlone(c, cs, 3, coll, FALSE, u,
                 UpdateRemoteUrl(c, urlResolve(u, <<"DefaultCollection">>)).RemoteUrl)

---------------------------------------------------------------------------
(* Properties of two calls *)

\* positions in the call record of the suspended call of the calls issued at one place
OtherAt(site) == {i \in DOMAIN other.calls : other.calls[i].site = site}

\* C16: the protocol of the collection fetch depends on the repository kind
\* and the remote URL only: two resolutions started with the same kind and
\* the same URL use the same protocol whatever answers their validations
\* get, REST for a hosted URL and the legacy protocol otherwise; the choice
\* made at the start is the one in force in every later state.
C16_ProtocolFromDescriptorOnly ==
    /\ (ctx.Type = other.ctx.Type /\ startUrl = other.startUrl) =>
          \A i \in At("collection"), j \in OtherAt("collection") :
              calls[i].proto = other.calls[j].proto
    /\ \A i \in At("collection") :
          calls[i].proto = IF IsTeamFoundationServicesRepo(startUrl) THEN "REST" ELSE "SOAP"
    /\ (ctx.Type \in Centralized /\ pc # "start") =>
          isTeamServices = IsTeamFoundationServicesRepo(startUrl)

C16_Witness ==
    /\ ctx.Type = other.ctx.Type
    /\ startUrl = other.startUrl
    /\ At("collection") # {}
    /\ OtherAt("collection") # {}
    /\ calls[1].ret = "true"
    /\ other.calls[1].ret = "false"

\* the context a call was started with
StartContext(r) == [r.ctx EXCEPT !.RemoteUrl = r.startUrl]

\* the call has ended as it ends when it runs alone and gets the same answers
EndsAsAlone(r) ==
    r.pc = "done" =>
        Outcome(r.result, r.ctx.RemoteUrl) = RunAlone(StartContext(r), r.calls, r.collection)

\* C20: two calls for two repository contexts that interleave at their
\* awaits do not affect each other: each ends with the result and the
\* RemoteUrl it ends with when it runs alone and gets the same answers.
C20_InterleavingHasNoEffect ==
    /\ EndsAsAlone(Running)
    /\ EndsAsAlone(other)

C20_Witness ==
    /\ pc = "done"
    /\ other.pc = "done"
    /\ result.kind = "identity"
    /\ other.result.kind = "identity"
    /\ ctx.RemoteUrl # startUrl
    /\ other.ctx.RemoteUrl # other.startUrl
    /\ ctx.RemoteUrl # other.ctx.RemoteUrl

=============================================================================
